---------------------------- MODULE Spec2Model ----------------------------
(***************************************************************************)
(* A model of main.py: the FCPXML chapter-marker exporter.                 *)
(*                                                                         *)
(* Text is modelled as TLA+ strings, character by character (Len, SubSeq   *)
(* and \o on strings).  The regular expression of extract_markers, the     *)
(* float() parser, str.strip, str.lower, str.endswith and the '{:02d}'     *)
(* formatter are operators over these strings.  A float is modelled as an  *)
(* exact rational (or inf / nan): for the start times drawn here (integer  *)
(* numerators and denominators below 2^31, decimals with few digits) the   *)
(* truncation int(x) of the IEEE double equals that of the exact value.    *)
(***************************************************************************)
EXTENDS Integers, Sequences, FiniteSets

VARIABLES
    fs,          \* the file system: path -> [kind, content]
    listing,     \* os.listdir of the bundle directory, in the order it returns
    fs0,         \* the file system when main starts (never changes)
    argInput,    \* args.input
    argOutput,   \* args.output
    pc,          \* where main is
    err,         \* the exception that ended the run, "none" otherwise
    input_path,  \* main's input_path (the resolved path)
    content,     \* extract_markers: the text read from the file
    pending,     \* extract_markers: the matches finditer has yet to yield
    matched,     \* the match objects finditer has yielded so far
    seen_values, \* extract_markers: the labels seen
    markers,     \* extract_markers: the (secs, line) entries appended
    result,      \* main's markers: the list extract_markers returned
    stdout       \* what main has printed

vars == << fs, listing, fs0, argInput, argOutput, pc, err, input_path, content,
           pending, matched, seen_values, markers, result, stdout >>

---------------------------------------------------------------------------
(* Characters and strings *)

Ch(s, i) == IF i >= 1 /\ i <= Len(s) THEN SubSeq(s, i, i) ELSE ""

Digits == {"0", "1", "2", "3", "4", "5", "6", "7", "8", "9"}

LowerLetters == {"a", "b", "c", "d", "e", "f", "g", "h", "i", "j", "k", "l", "m",
                 "n", "o", "p", "q", "r", "s", "t", "u", "v", "w", "x", "y", "z"}

UpperLetters == {"A", "B", "C", "D", "E", "F", "G", "H", "I", "J", "K", "L", "M",
                 "N", "O", "P", "Q", "R", "S", "T", "U", "V", "W", "X", "Y", "Z"}

\* the characters the regular expression's \w matches
WordChars == Digits \cup LowerLetters \cup UpperLetters \cup {"_"}

\* the characters str.strip() removes
Whitespace == {" ", "\t", "\n", "\r", "\f"}

StartsAt(s, i, lit) ==
    /\ i >= 1
    /\ i + Len(lit) - 1 <= Len(s)
    /\ SubSeq(s, i, i + Len(lit) - 1) = lit

\* the regular expression's \b between the characters i-1 and i
WordBoundary(s, i) == (Ch(s, i - 1) \in WordChars) # (Ch(s, i) \in WordChars)

\* the index of the first c at or after from, 0 when there is none
RECURSIVE FirstIndex(_, _, _)
FirstIndex(s, c, from) ==
    IF from > Len(s) THEN 0
    ELSE IF Ch(s, from) = c THEN from
    ELSE FirstIndex(s, c, from + 1)

\* the last index a run of characters other than c can reach from from
RunEnd(s, c, from) ==
    LET i == FirstIndex(s, c, from) IN IF i = 0 THEN Len(s) ELSE i - 1

SetMax(S) == CHOOSE k \in S : \A j \in S : j <= k

RECURSIVE LStrip(_)
LStrip(s) == IF Len(s) > 0 /\ Ch(s, 1) \in Whitespace
             THEN LStrip(SubSeq(s, 2, Len(s))) ELSE s

RECURSIVE RStrip(_)
RStrip(s) == IF Len(s) > 0 /\ Ch(s, Len(s)) \in Whitespace
             THEN RStrip(SubSeq(s, 1, Len(s) - 1)) ELSE s

\* str.strip()
Strip(s) == RStrip(LStrip(s))

LowerOf(c) ==
    CASE c = "A" -> "a" [] c = "B" -> "b" [] c = "C" -> "c" [] c = "D" -> "d"
      [] c = "E" -> "e" [] c = "F" -> "f" [] c = "G" -> "g" [] c = "H" -> "h"
      [] c = "I" -> "i" [] c = "J" -> "j" [] c = "K" -> "k" [] c = "L" -> "l"
      [] c = "M" -> "m" [] c = "N" -> "n" [] c = "O" -> "o" [] c = "P" -> "p"
      [] c = "Q" -> "q" [] c = "R" -> "r" [] c = "S" -> "s" [] c = "T" -> "t"
      [] c = "U" -> "u" [] c = "V" -> "v" [] c = "W" -> "w" [] c = "X" -> "x"
      [] c = "Y" -> "y" [] c = "Z" -> "z" [] OTHER -> c

\* str.lower()
RECURSIVE Lower(_)
Lower(s) == IF s = "" THEN "" ELSE LowerOf(Ch(s, 1)) \o Lower(SubSeq(s, 2, Len(s)))

\* str.endswith(suffix)
EndsWith(s, suffix) ==
    /\ Len(s) >= Len(suffix)
    /\ SubSeq(s, Len(s) - Len(suffix) + 1, Len(s)) = suffix

\* the number of c in s
RECURSIVE Count(_, _)
Count(s, c) == IF s = "" THEN 0
               ELSE (IF Ch(s, 1) = c THEN 1 ELSE 0) + Count(SubSeq(s, 2, Len(s)), c)

---------------------------------------------------------------------------
(* The regular expression of extract_markers:                              *)
(*   <chapter-marker\b[^>]*\bstart="([^"]+?)s"[^>]*\bvalue="([^"]*?)"[^>]*> *)
(* re.DOTALL changes only what "." matches, and the pattern has no ".";    *)
(* the negated classes [^>] and [^"] match a line break in any mode.       *)

TagLit == "<chapter-marker"

StartLit == "start=\""

ValueLit == "value=\""

Quote == "\""

\* ([^"]+?)s" from a: the closing quote's index, 0 when this part fails.
\* [^"] cannot cross a quote, so the quote after the s is the first one from
\* a on, and the lazy group is everything before that s (at least one char).
StartClose(s, a) ==
    LET e == FirstIndex(s, Quote, a)
    IN  IF e >= a + 2 /\ Ch(s, e - 1) = "s" THEN e ELSE 0

\* [^>]*\bvalue="([^"]*?)"[^>]*> from index from: the indices r at which
\* value=" may start so that the rest of the pattern matches ([^>]* reaches
\* no further than the first ">")
ValueCands(s, from) ==
    {r \in from..(RunEnd(s, ">", from) + 1) :
        /\ StartsAt(s, r, ValueLit)
        /\ WordBoundary(s, r)
        /\ LET f == FirstIndex(s, Quote, r + Len(ValueLit))
           IN  f > 0 /\ FirstIndex(s, ">", f + 1) > 0}

\* [^>]*\bstart="..." after the tag name at i: the indices q at which start="
\* may start so that the rest of the pattern matches
StartCands(s, i) ==
    {q \in (i + Len(TagLit))..(RunEnd(s, ">", i + Len(TagLit)) + 1) :
        /\ StartsAt(s, q, StartLit)
        /\ WordBoundary(s, q)
        /\ LET e == StartClose(s, q + Len(StartLit))
           IN  e > 0 /\ ValueCands(s, e + 1) # {}}

\* whether the pattern matches at index i
MatchesAt(s, i) ==
    /\ StartsAt(s, i, TagLit)
    /\ WordBoundary(s, i + Len(TagLit))
    /\ StartCands(s, i) # {}

\* the match object at i (MatchesAt(s, i) holds): [^>]* is greedy, so the
\* engine takes the last start=" and then the last value=" that work
MatchAt(s, i) ==
    LET q == SetMax(StartCands(s, i))
        a == q + Len(StartLit)
        e == StartClose(s, a)
        r == SetMax(ValueCands(s, e + 1))
        b == r + Len(ValueLit)
        f == FirstIndex(s, Quote, b)
        g == FirstIndex(s, ">", f + 1)
    IN  [pos |-> i, end |-> g,
         start |-> SubSeq(s, a, e - 2), value |-> SubSeq(s, b, f - 1)]

\* the index of the next match at or after from, 0 if none: a match starts
\* with "<", so the scan goes from one "<" to the next
RECURSIVE NextMatch(_, _)
NextMatch(s, from) ==
    LET i == FirstIndex(s, "<", from)
    IN  IF i = 0 THEN 0
        ELSE IF MatchesAt(s, i) THEN i
        ELSE NextMatch(s, i + 1)

\* the matches from index from on, left to right and not overlapping
RECURSIVE MatchesFrom(_, _)
MatchesFrom(s, from) ==
    LET i == NextMatch(s, from)
    IN  IF i = 0 THEN << >>
        ELSE LET m == MatchAt(s, i) IN << m >> \o MatchesFrom(s, m.end + 1)

\* pattern.finditer(content): the text does not change during the scan, so
\* the matches the iterator yields one by one are those of the whole text
finditer(s) == MatchesFrom(s, 1)

---------------------------------------------------------------------------
(* float(), fraction_to_float and format_time *)

SecondsPerMinute == 60

PadWidth == 2

Fin(n, d) == [k |-> "fin", n |-> n, d |-> d]

Inf(sign) == [k |-> "inf", n |-> sign, d |-> 1]

NaN == [k |-> "nan", n |-> 0, d |-> 1]

\* float() raised ValueError
BadFloat == [k |-> "err", n |-> 0, d |-> 1]

DigitVal(c) ==
    CASE c = "0" -> 0 [] c = "1" -> 1 [] c = "2" -> 2 [] c = "3" -> 3
      [] c = "4" -> 4 [] c = "5" -> 5 [] c = "6" -> 6 [] c = "7" -> 7
      [] c = "8" -> 8 [] c = "9" -> 9

DigitChar(v) ==
    CASE v = 0 -> "0" [] v = 1 -> "1" [] v = 2 -> "2" [] v = 3 -> "3"
      [] v = 4 -> "4" [] v = 5 -> "5" [] v = 6 -> "6" [] v = 7 -> "7"
      [] v = 8 -> "8" [] v = 9 -> "9"

AllDigits(s) == \A k \in 1..Len(s) : Ch(s, k) \in Digits

\* the value of a string of digits ("" is 0)
RECURSIVE DigitsValue(_)
DigitsValue(s) ==
    IF s = "" THEN 0
    ELSE 10 * DigitsValue(SubSeq(s, 1, Len(s) - 1)) + DigitVal(Ch(s, Len(s)))

RECURSIVE Pow10(_)
Pow10(k) == IF k = 0 THEN 1 ELSE 10 * Pow10(k - 1)

\* an unsigned literal: digits, with at most one "." and at least one digit
ParseUnsigned(s) ==
    LET dot  == FirstIndex(s, ".", 1)
        int  == IF dot = 0 THEN s ELSE SubSeq(s, 1, dot - 1)
        frac == IF dot = 0 THEN "" ELSE SubSeq(s, dot + 1, Len(s))
    IN  IF AllDigits(int) /\ AllDigits(frac) /\ Len(int) + Len(frac) > 0
        THEN Fin(DigitsValue(int \o frac), Pow10(Len(frac)))
        ELSE BadFloat

\* float(s) for the literals made of a sign, digits, one decimal point, or the
\* words inf, infinity and nan in any case, between optional white space.
\* (float() also takes exponents and "_" between digits; no text drawn in
\* Init holds an "e" after a digit or a "_".)
ParseFloat(s) ==
    LET t    == Strip(s)
        neg  == Ch(t, 1) = "-"
        body == IF Ch(t, 1) \in {"-", "+"} THEN SubSeq(t, 2, Len(t)) ELSE t
        word == Lower(body)
        u    == ParseUnsigned(body)
    IN  IF word \in {"inf", "infinity"} THEN Inf(IF neg THEN -1 ELSE 1)
        ELSE IF word = "nan" THEN NaN
        ELSE IF u.k = "fin" /\ neg THEN Fin(-u.n, u.d)
        ELSE u

\* x / y on floats; BadFloat stands for the ZeroDivisionError
FloatDiv(x, y) ==
    IF y.k = "fin" /\ y.n = 0 THEN BadFloat
    ELSE IF x.k = "nan" \/ y.k = "nan" THEN NaN
    ELSE IF x.k = "inf" /\ y.k = "inf" THEN NaN
    ELSE IF x.k = "inf" THEN Inf(IF y.n < 0 THEN -x.n ELSE x.n)
    ELSE IF y.k = "inf" THEN Fin(0, 1)
    ELSE IF y.n > 0 THEN Fin(x.n * y.d, x.d * y.n)
    ELSE Fin(-(x.n * y.d), x.d * (-y.n))

\* fraction_string.split('/') when it yields exactly two parts
SplitSlash(s) ==
    LET i == FirstIndex(s, "/", 1)
    IN  << SubSeq(s, 1, i - 1), SubSeq(s, i + 1, Len(s)) >>

fraction_to_float(fraction_string) ==
    LET raw ==
          IF Count(fraction_string, "/") > 0
          THEN IF Count(fraction_string, "/") # 1
               THEN BadFloat   \* the unpacking into two names raises ValueError
               ELSE LET parts == SplitSlash(fraction_string)
                        numerator   == ParseFloat(parts[1])
                        denominator == ParseFloat(parts[2])
                    IN  IF numerator.k = "err" \/ denominator.k = "err"
                        THEN BadFloat
                        ELSE FloatDiv(numerator, denominator)
          ELSE ParseFloat(fraction_string)
    IN  IF raw.k = "err" THEN Fin(0, 1) ELSE raw

\* int(x) of a finite float: truncation toward zero
Trunc(x) == IF x.n >= 0 THEN x.n \div x.d ELSE -((-x.n) \div x.d)

RECURSIVE NatText(_)
NatText(n) == IF n < 10 THEN DigitChar(n)
              ELSE NatText(n \div 10) \o DigitChar(n % 10)

RECURSIVE ZeroFill(_, _)
ZeroFill(s, width) == IF Len(s) >= width THEN s ELSE ZeroFill("0" \o s, width)

\* '{:02d}'.format(n): the sign counts in the width, the zeros follow it
Format02d(n) ==
    IF n >= 0 THEN ZeroFill(NatText(n), PadWidth)
    ELSE "-" \o ZeroFill(NatText(-n), PadWidth - 1)

\* format_time with the seconds not reduced modulo 60
format_time_no_mod(seconds) ==
    IF seconds.k = "nan" THEN [exc |-> "ValueError", text |-> ""]
    ELSE IF seconds.k = "inf" THEN [exc |-> "OverflowError", text |-> ""]
    ELSE LET minutes == Trunc(seconds) \div SecondsPerMinute
             secs    == Trunc(seconds)
         IN  [exc |-> "none",
              text |-> Format02d(minutes) \o ":" \o Format02d(secs)]

\* format_time(seconds): the text, or the exception int() raises
format_time(seconds) ==
    IF seconds.k = "nan" THEN [exc |-> "ValueError", text |-> ""]
    ELSE IF seconds.k = "inf" THEN [exc |-> "OverflowError", text |-> ""]
    ELSE LET minutes == Trunc(seconds) \div SecondsPerMinute
             secs    == Trunc(seconds) % SecondsPerMinute
         IN  [exc |-> "none",
              text |-> Format02d(minutes) \o ":" \o Format02d(secs)]

---------------------------------------------------------------------------
(* The file system *)

InFile == "in.fcpxml"

MissingFile == "missing.fcpxml"

OutFile == "out.txt"

BundleDir == "Show.fcpxmld"

InfoName == "Info.fcpxml"

FcpxmlSuffix == ".fcpxml"

\* the names a bundle's entries are drawn from
EntryNames == {"Info.fcpxml", "Show.fcpxml", "b.FCPXML", "notes.txt", "info.fcpxml"}

\* os.path.join(directory, name)
Join(directory, name) == directory \o "/" \o name

Paths == {InFile, MissingFile, OutFile, BundleDir}
             \cup {Join(BundleDir, n) : n \in EntryNames}

NoEntry == [kind |-> "none", content |-> ""]

FileOf(text) == [kind |-> "file", content |-> text]

DirEntry == [kind |-> "dir", content |-> ""]

\* os.path.isdir, os.path.isfile
isdir(f, path) == path \in DOMAIN f /\ f[path].kind = "dir"

isfile(f, path) == path \in DOMAIN f /\ f[path].kind = "file"

\* os.listdir(path): the bundle is the only directory that is listed
listdir(lst, path) == IF path = BundleDir THEN lst ELSE << >>

Returned(path) == [ok |-> TRUE, path |-> path, err |-> "none"]

\* raise FileNotFoundError(...): which of the two messages
NotFound(which) == [ok |-> FALSE, path |-> "", err |-> which]

\* the first entry of the listing whose lower-cased name ends with .fcpxml
FirstFcpxml(lst) ==
    LET hits == {i \in 1..Len(lst) : EndsWith(Lower(lst[i]), FcpxmlSuffix)}
    IN  IF hits = {} THEN 0 ELSE CHOOSE i \in hits : \A j \in hits : i <= j

\* resolve_input_path comparing the suffix without lower()
FirstFcpxmlCased(lst) ==
    LET hits == {i \in 1..Len(lst) : EndsWith(lst[i], FcpxmlSuffix)}
    IN  IF hits = {} THEN 0 ELSE CHOOSE i \in hits : \A j \in hits : i <= j

resolve_input_path_cased(f, lst, path) ==
    IF isdir(f, path)
    THEN LET info == Join(path, InfoName)
             i    == FirstFcpxmlCased(listdir(lst, path))
         IN  IF isfile(f, info) THEN Returned(info)
             ELSE IF i # 0 THEN Returned(Join(path, listdir(lst, path)[i]))
             ELSE NotFound("no fcpxml in directory")
    ELSE IF isfile(f, path) THEN Returned(path)
         ELSE NotFound("input does not exist")

resolve_input_path(f, lst, path) ==
    IF isdir(f, path)
    THEN LET info == Join(path, InfoName)
             i    == FirstFcpxml(listdir(lst, path))
         IN  IF isfile(f, info) THEN Returned(info)
             ELSE IF i # 0 THEN Returned(Join(path, listdir(lst, path)[i]))
             ELSE NotFound("no fcpxml in directory")
    ELSE IF isfile(f, path) THEN Returned(path)
         ELSE NotFound("input does not exist")

---------------------------------------------------------------------------
(* The inputs *)

\* the chapter-marker tags per file, and the entries per bundle
MaxTags == 3

MaxEntries == 3

ExampleText ==
    "<chapter-marker start=\"0s\" value=\"Intro\">\n<chapter-marker start=\"65s\" value=\"Verse 1\">\n"

OldOutput == "09:59 old\n"

TagPool == {
    "<chapter-marker start=\"0s\" value=\"Intro\">",
    "<chapter-marker start=\"65s\" duration=\"1s\" value=\"Verse 1\"/>",
    "<chapter-marker start=\"2702600/30000s\" value=\"Intro\"/>",
    "<chapter-marker value=\"Bridge\" start=\"5s\"/>",
    "<marker start=\"7s\" value=\"M\"/>",
    "<chapter-marker-x start=\"6009s\" value=\"X\"/>",
    "<chapter-marker start=\"infs\" value=\"I\"/>",
    "<chapter-marker start=\"nans\" value=\"N\"/>",
    "<chapter-marker start=\"abc s\" value=\" Verse 1 \"/>",
    "<chapter-marker start=\"185.7s\" value=\"L1\nL2\"/>",
    "<chapter-marker start=\"1/0s\" value=\"\" posterOffset=\"0s\"/>" }

\* the files of at most n tags
RECURSIVE Texts(_)
Texts(n) == IF n = 0 THEN {""}
            ELSE Texts(n - 1) \cup {t \o c : t \in Texts(n - 1), c \in TagPool}

Entry(name, kind) == [name |-> name, kind |-> kind]

\* the listings of at most n entries, all names distinct
RECURSIVE Listings(_)
Listings(n) ==
    IF n = 0 THEN {<< >>}
    ELSE Listings(n - 1) \cup
         {Append(l, Entry(name, kind)) :
            l \in {x \in Listings(n - 1) : Len(x) = n - 1},
            name \in EntryNames, kind \in {"file", "dir"}}

DistinctNames(l) == \A i, j \in 1..Len(l) : l[i].name = l[j].name => i = j

Scenario(input, output, out, entries, text) ==
    [input |-> input, output |-> output, out |-> out, entries |-> entries,
     text |-> text]

\* a plain input file with every text, written to a new file
TextScenarios ==
    {Scenario(InFile, OutFile, "none", << >>, t) : t \in Texts(MaxTags)}

\* a bundle with every listing
BundleScenarios ==
    {Scenario(BundleDir, OutFile, out, l, ExampleText) :
        l \in {x \in Listings(MaxEntries) : DistinctNames(x)},
        out \in {"none", "file"}}

\* a plain or missing input, with every kind of output path
PlainScenarios ==
    {Scenario(input, output, out, << >>, t) :
        input \in {InFile, MissingFile}, output \in {OutFile, InFile},
        out \in {"none", "file", "dir"},
        t \in {ExampleText, "<chapter-marker start=\"infs\" value=\"I\"/>"}}

Scenarios == TextScenarios \cup BundleScenarios \cup PlainScenarios

KindIn(entries, name) ==
    IF \E i \in 1..Len(entries) : entries[i].name = name
    THEN (CHOOSE e \in {entries[i] : i \in 1..Len(entries)} : e.name = name).kind
    ELSE "none"

FsOf(sc) ==
    [p \in Paths |->
        IF p = InFile THEN FileOf(sc.text)
        ELSE IF p = MissingFile THEN NoEntry
        ELSE IF p = OutFile
             THEN (IF sc.out = "file" THEN FileOf(OldOutput)
                   ELSE IF sc.out = "dir" THEN DirEntry ELSE NoEntry)
        ELSE IF p = BundleDir THEN DirEntry
        ELSE LET name == SubSeq(p, Len(BundleDir) + 2, Len(p))
                 kind == KindIn(sc.entries, name)
             IN  IF kind = "file" THEN FileOf(sc.text)
                 ELSE IF kind = "dir" THEN DirEntry ELSE NoEntry]

---------------------------------------------------------------------------
(* The program *)

Init ==
    \E sc \in Scenarios :
        /\ fs = FsOf(sc)
        /\ fs0 = FsOf(sc)
        /\ listing = [i \in 1..Len(sc.entries) |-> sc.entries[i].name]
        /\ argInput = sc.input
        /\ argOutput = sc.output
        /\ pc = "start"
        /\ err = "none"
        /\ input_path = ""
        /\ content = ""
        /\ pending = << >>
        /\ matched = << >>
        /\ seen_values = {}
        /\ markers = << >>
        /\ result = << >>
        /\ stdout = << >>

\* main, lines 87-94: resolve_input_path returns
MainResolved ==
    /\ pc = "start"
    /\ LET r == resolve_input_path(fs, listing, argInput)
       IN  /\ r.ok
           /\ input_path' = r.path
           /\ stdout' = IF r.path # argInput
                        THEN Append(stdout, << "resolved", r.path >>)
                        ELSE stdout
    /\ pc' = "extract"
    /\ UNCHANGED << fs, listing, fs0, argInput, argOutput, err, content, pending,
                    matched, seen_values, markers, result >>

\* MainNotFound with the output file opened before the input is resolved
MainNotFoundOutputOpened ==
    /\ pc = "start"
    /\ LET r == resolve_input_path(fs, listing, argInput)
       IN  /\ ~r.ok
           /\ stdout' = Append(stdout, << "error", r.err >>)
    /\ fs' = IF isdir(fs, argOutput) THEN fs
             ELSE [fs EXCEPT ![argOutput] = [kind |-> "file", content |-> ""]]
    /\ pc' = "returned"
    /\ UNCHANGED << listing, fs0, argInput, argOutput, err, input_path,
                    content, pending, matched, seen_values, markers, result >>

\* main, lines 87-91: resolve_input_path raises, main prints and returns
MainNotFound ==
    /\ pc = "start"
    /\ LET r == resolve_input_path(fs, listing, argInput)
       IN  /\ ~r.ok
           /\ stdout' = Append(stdout, << "error", r.err >>)
    /\ pc' = "returned"
    /\ UNCHANGED << fs, listing, fs0, argInput, argOutput, err, input_path,
                    content, pending, matched, seen_values, markers, result >>

\* ReadInput with the output file opened (truncated) before the input is read
ReadInputOutputOpened ==
    /\ pc = "extract"
    /\ isfile(fs, input_path)
    /\ ~isdir(fs, argOutput)
    /\ fs' = [fs EXCEPT ![argOutput] = [kind |-> "file", content |-> ""]]
    /\ content' = fs'[input_path].content
    /\ pending' = finditer(fs'[input_path].content)
    /\ matched' = << >>
    /\ seen_values' = {}
    /\ markers' = << >>
    /\ pc' = "scan"
    /\ UNCHANGED << listing, fs0, argInput, argOutput, err, input_path,
                    result, stdout >>

\* extract_markers, lines 37-45: the whole file is read, then closed
ReadInput ==
    /\ pc = "extract"
    /\ isfile(fs, input_path)
    /\ content' = fs[input_path].content
    /\ pending' = finditer(fs[input_path].content)
    /\ matched' = << >>
    /\ seen_values' = {}
    /\ markers' = << >>
    /\ pc' = "scan"
    /\ UNCHANGED << fs, listing, fs0, argInput, argOutput, err, input_path,
                    result, stdout >>

\* extract_markers, line 44: open() raises, nothing catches it
ReadInputRaises ==
    /\ pc = "extract"
    /\ ~isfile(fs, input_path)
    /\ err' = IF isdir(fs, input_path) THEN "IsADirectoryError"
              ELSE "FileNotFoundError"
    /\ pc' = "crashed"
    /\ UNCHANGED << fs, listing, fs0, argInput, argOutput, input_path, content,
                    pending, matched, seen_values, markers, result, stdout >>

\* IsSeen with the membership test dropped: every match counts as new
IsSeenNever(value, seen) == FALSE

\* line 52: value in seen_values
IsSeen(value, seen) == value \in seen

\* line 57: the line of a marker
MarkerLine(time, value) == Strip(time \o " " \o value)

\* lines 47-53: the next match carries a label already seen
SkipDuplicate ==
    /\ pc = "scan"
    /\ pending # << >>
    /\ LET m == Head(pending)
       IN  /\ IsSeen(Strip(m.value), seen_values)
           /\ matched' = Append(matched, m)
           /\ pending' = Tail(pending)
    /\ UNCHANGED << fs, listing, fs0, argInput, argOutput, pc, err, input_path,
                    content, seen_values, markers, result, stdout >>

\* lines 47-57: the next match carries a new label, and is appended
AppendMarker ==
    /\ pc = "scan"
    /\ pending # << >>
    /\ LET m     == Head(pending)
           start == Strip(m.start)
           value == Strip(m.value)
           secs  == fraction_to_float(start)
           time  == format_time(secs)
       IN  /\ ~IsSeen(value, seen_values)
           /\ time.exc = "none"
           /\ matched' = Append(matched, m)
           /\ pending' = Tail(pending)
           /\ seen_values' = seen_values \cup {value}
           /\ markers' = Append(markers, << secs, MarkerLine(time.text, value) >>)
    /\ UNCHANGED << fs, listing, fs0, argInput, argOutput, pc, err, input_path,
                    content, result, stdout >>

\* lines 47-57: format_time raises on the next match, nothing catches it
FormatRaises ==
    /\ pc = "scan"
    /\ pending # << >>
    /\ LET m     == Head(pending)
           start == Strip(m.start)
           value == Strip(m.value)
           time  == format_time(fraction_to_float(start))
       IN  /\ ~IsSeen(value, seen_values)
           /\ time.exc # "none"
           /\ matched' = Append(matched, m)
           /\ pending' = Tail(pending)
           /\ seen_values' = seen_values \cup {value}
           /\ err' = time.exc
    /\ pc' = "crashed"
    /\ UNCHANGED << fs, listing, fs0, argInput, argOutput, input_path, content,
                    markers, result, stdout >>

\* lines 47, 60: no match is left, extract_markers returns the lines
ExtractReturns ==
    /\ pc = "scan"
    /\ pending = << >>
    /\ result' = [i \in 1..Len(markers) |-> markers[i][2]]
    /\ pc' = "write"
    /\ UNCHANGED << fs, listing, fs0, argInput, argOutput, err, input_path,
                    content, pending, matched, seen_values, markers, stdout >>

\* line 97: open(args.output, 'w') creates or truncates the file
OpenOutput ==
    /\ pc = "write"
    /\ ~isdir(fs, argOutput)
    /\ fs' = [fs EXCEPT ![argOutput] = FileOf("")]
    /\ pc' = "writing"
    /\ UNCHANGED << listing, fs0, argInput, argOutput, err, input_path, content,
                    pending, matched, seen_values, markers, result, stdout >>

\* line 97: open() raises on a directory, nothing catches it
OpenOutputRaises ==
    /\ pc = "write"
    /\ isdir(fs, argOutput)
    /\ err' = "IsADirectoryError"
    /\ pc' = "crashed"
    /\ UNCHANGED << fs, listing, fs0, argInput, argOutput, input_path, content,
                    pending, matched, seen_values, markers, result, stdout >>

\* lines 98-99: every line followed by a line break
RECURSIVE Written(_)
Written(lines) == IF lines = << >> THEN ""
                  ELSE Head(lines) \o "\n" \o Written(Tail(lines))

\* lines 98-101: the lines are written, the file closed, the status printed
WriteLines ==
    /\ pc = "writing"
    /\ fs' = [fs EXCEPT ![argOutput] = FileOf(Written(result))]
    /\ stdout' = Append(stdout, << "written", Len(result), argOutput >>)
    /\ pc' = "done"
    /\ UNCHANGED << listing, fs0, argInput, argOutput, err, input_path, content,
                    pending, matched, seen_values, markers, result >>

Next ==
    \/ MainResolved
    \/ MainNotFound
    \/ ReadInput
    \/ ReadInputRaises
    \/ SkipDuplicate
    \/ AppendMarker
    \/ FormatRaises
    \/ ExtractReturns
    \/ OpenOutput
    \/ OpenOutputRaises
    \/ WriteLines

Spec == Init /\ [][Next]_vars

---------------------------------------------------------------------------
(* The claims *)

Label(m) == Strip(m.value)

StartText(m) == Strip(m.start)

\* the matches yielded so far that were the first with their label
IsFirst(i) == \A j \in 1..(i - 1) : Label(matched[j]) # Label(matched[i])

\* the number of distinct labels among the first i matches
Rank(i) == Cardinality({Label(matched[j]) : j \in 1..i})

\* the loop of extract_markers is running or has ended without an exception
Scanned == pc \in {"scan", "write", "writing", "done"}

\* the formatted time of a line: the text before its first space
TimeField(line) ==
    LET sp == FirstIndex(line, " ", 1)
    IN  IF sp = 0 THEN line ELSE SubSeq(line, 1, sp - 1)

\* the label of a line: the text after its first space
LabelField(line) ==
    LET sp == FirstIndex(line, " ", 1)
    IN  IF sp = 0 THEN "" ELSE SubSeq(line, sp + 1, Len(line))

\* C1: after any prefix of the matches, the marker list holds one entry per
\* distinct stripped label of the prefix, in the order of the labels' first
\* matches, and each entry carries the label and the time of that first match.
C1_FirstOccurrenceKept ==
    Scanned =>
        /\ Len(markers) = Cardinality({Label(matched[i]) : i \in 1..Len(matched)})
        /\ \A i \in 1..Len(matched) :
              IsFirst(i) =>
                 /\ LabelField(markers[Rank(i)][2]) = Label(matched[i])
                 /\ markers[Rank(i)][1] = fraction_to_float(StartText(matched[i]))
                 /\ TimeField(markers[Rank(i)][2])
                       = format_time(markers[Rank(i)][1]).text

\* two matches with one label and different times, around a third label
C1_Witness ==
    /\ pc = "write"
    /\ Len(matched) = 3
    /\ Len(markers) = 2
    /\ Label(matched[1]) = Label(matched[3])
    /\ StartText(matched[1]) = "0"
    /\ StartText(matched[3]) = "2702600/30000"
    /\ markers[1][2] = "00:00 Intro"

\* the name of the tag that opens at index i
NameChars == WordChars \cup {"-", ".", ":"}

RECURSIVE NameEnd(_, _)
NameEnd(s, i) == IF Ch(s, i) \in NameChars THEN NameEnd(s, i + 1) ELSE i - 1

TagName(s, i) == SubSeq(s, i + 1, NameEnd(s, i + 1))

\* the chapter-marker tags of a text that carry start="...s" and value="...",
\* in either order: the indices of their "<"
FullChapterTags(s) ==
    {i \in 1..Len(s) :
        /\ Ch(s, i) = "<"
        /\ TagName(s, i) = "chapter-marker"
        /\ LET last == RunEnd(s, ">", i)
           IN  /\ last < Len(s)
               /\ \E q \in i..last :
                     /\ StartsAt(s, q, " start=\"")
                     /\ StartClose(s, q + 8) \in (q + 10)..last
               /\ \E r \in i..last :
                     /\ StartsAt(s, r, " value=\"")
                     /\ FirstIndex(s, Quote, r + 8) \in (r + 8)..last}

\* C2: every chapter-marker tag with a start="...s" and a value="..." attribute
\* is matched, whichever attribute comes first.
C2_AnyAttributeOrder ==
    pc = "write" =>
        \A i \in FullChapterTags(content) :
            \E k \in 1..Len(matched) : matched[k].pos = i

\* C3: no start text makes extract_markers raise: the marker of a text that
\* cannot be parsed is emitted at 00:00 and the later matches are processed.
C3_MalformedStartNeverRaises ==
    /\ err \notin {"ValueError", "OverflowError"}
    /\ Scanned =>
          \A i \in 1..Len(matched) :
              (IsFirst(i) /\ StartText(matched[i]) \in {"abc", "1/0"})
                  => TimeField(markers[Rank(i)][2]) = "00:00"

\* the input cannot be resolved: it does not exist, or it is a directory with
\* no file Info.fcpxml and no entry named *.fcpxml in any case
FcpxmlNamed == {"Info.fcpxml", "Show.fcpxml", "b.FCPXML", "info.fcpxml"}

HasInfoFile ==
    /\ \E i \in 1..Len(listing) : listing[i] = "Info.fcpxml"
    /\ fs0[Join(argInput, "Info.fcpxml")].kind = "file"

Unresolvable ==
    \/ fs0[argInput].kind = "none"
    \/ /\ fs0[argInput].kind = "dir"
       /\ ~HasInfoFile
       /\ \A i \in 1..Len(listing) : listing[i] \notin FcpxmlNamed

\* C4: when the input cannot be resolved, main prints the error and returns;
\* the file system, the output path included, stays as it was.
C4_NotFoundWritesNothing ==
    Unresolvable =>
        /\ pc \in {"start", "returned"}
        /\ fs = fs0
        /\ err = "none"
        /\ pc = "returned" => (Len(stdout) = 1 /\ stdout[1][1] = "error")

\* a missing input and an existing output file, after main returned
C4_Witness ==
    /\ pc = "returned"
    /\ argInput = MissingFile
    /\ argOutput = OutFile
    /\ fs[OutFile] = [kind |-> "file", content |-> OldOutput]

C6_OneLinePerMarker ==
    pc = "done" =>
        /\ Count(fs[argOutput].content, "\n") = Cardinality(seen_values)
        /\ stdout[Len(stdout)] = << "written", Cardinality(seen_values), argOutput >>

\* C7: every match, and so every output line, comes from a tag whose name is
\* exactly chapter-marker.
C7_OnlyChapterMarkerTags ==
    \A k \in 1..Len(matched) : TagName(content, matched[k].pos) = "chapter-marker"

\* the times of the start texts the specification gives as examples
ExampleTimes ==
    [t \in {"0", "65", "2702600/30000", "185.7"} |->
        CASE t = "0" -> "00:00" [] t = "65" -> "01:05"
          [] t = "2702600/30000" -> "01:30" [] t = "185.7" -> "03:05"]

\* C8: a non-negative start time is formatted as minutes:seconds with
\* 60 * minutes + seconds = floor(start), seconds in 0..59, both in at least
\* two digits, zero-padded.
C8_TimeFormat ==
    /\ \A k \in 1..Len(markers) :
          (markers[k][1].k = "fin" /\ markers[k][1].n >= 0) =>
              LET field == TimeField(markers[k][2])
                  colon == FirstIndex(field, ":", 1)
                  mm    == SubSeq(field, 1, colon - 1)
                  ss    == SubSeq(field, colon + 1, Len(field))
              IN  /\ colon > 0
                  /\ AllDigits(mm) /\ AllDigits(ss)
                  /\ Len(ss) = 2 /\ Len(mm) >= 2
                  /\ Len(mm) > 2 => Ch(mm, 1) # "0"
                  /\ DigitsValue(ss) <= 59
                  /\ 60 * DigitsValue(mm) + DigitsValue(ss)
                        = markers[k][1].n \div markers[k][1].d
    /\ Scanned =>
          \A i \in 1..Len(matched) :
              (IsFirst(i) /\ StartText(matched[i]) \in DOMAIN ExampleTimes) =>
                  TimeField(markers[Rank(i)][2]) = ExampleTimes[StartText(matched[i])]

\* the rational example, a decimal and a time of a hundred minutes
C8_Witness ==
    /\ pc = "write"
    /\ Len(markers) = 3
    /\ markers[1][2] = "01:30 Intro"
    /\ markers[2][2] = "03:05 L1\nL2"
    /\ markers[3][2] = "100:09 X"

\* C9: the path resolve_input_path returns names a regular file, which
\* extract_markers can open.
C9_ResolvedIsRegularFile ==
    /\ pc \notin {"start", "returned"} => isfile(fs0, input_path)
    /\ err = "IsADirectoryError" => isdir(fs0, argOutput)

\* C10: the file system changes only once extract_markers has returned: a
\* run that has not reached the write, or that ended in an exception, leaves
\* every file as it was, and the text scanned is the whole input as it was
\* when main started, also when the output path is the input file.
C10_WriteAfterExtract ==
    /\ pc \in {"start", "returned", "extract", "scan", "write", "crashed"}
          => fs = fs0
    /\ pc \in {"scan", "write", "writing", "done"}
          => content = fs0[input_path].content
    /\ pc \in {"writing", "done"}
          => /\ pending = << >>
             /\ \A p \in Paths : p # argOutput => fs[p] = fs0[p]

\* the output path is the input file: the example's two lines replace it
C10_Witness ==
    /\ pc = "done"
    /\ argOutput = input_path
    /\ fs0[input_path].content = ExampleText
    /\ fs[argOutput].content = "00:00 Intro\n01:05 Verse 1\n"

=============================================================================
